---- MODULE Spec2Model ----
\* A model of histolab's slide.py: the Slide accessor (name, dimensions,
\* resampled dimensions, output paths, saving) and the SlideSet collection
\* (enumeration, batch saving, statistics).
\*
\* Strings are sequences of one-character strings, so that splitting,
\* joining and formatting are computed character by character.
\* The file system is a listing of the input directory (each entry with the
\* state of its container), the set of output directories that exist, and the
\* set of output files (path, image).
EXTENDS Integers, Sequences, FiniteSets, TLC

VARIABLES directory, dirs, files, clock, log, ret

vars == <<directory, dirs, files, clock, log, ret>>

\* ---------------------------------------------------------------- bounds
MaxFiles == 1
MaxSlides == 3
MaxSteps == 2
MaxSetSteps == 1

\* ------------------------------------------------------- program constants
IMG_EXT == <<"p", "n", "g">>
THUMBNAIL_SIZE == 300
DefaultScale == 32
\* the value standing for Python's None in a dimension
None == -1

\* ------------------------------------------------------------ string tools
Digits == <<"0", "1", "2", "3", "4", "5", "6", "7", "8", "9">>

RECURSIVE IntToStr(_)
IntToStr(n) ==
  IF n < 10 THEN <<Digits[n + 1]>>
  ELSE IntToStr(n \div 10) \o <<Digits[(n % 10) + 1]>>

\* F applied to the value of v, which is computed once
With(v, F(_)) == CHOOSE r \in {F(x) : x \in {v}} : TRUE

MaxOf(S) == CHOOSE x \in S : \A y \in S : y <= x
MinOf(S) == CHOOSE x \in S : \A y \in S : x <= y

\* str.rfind for a one-character needle, 1-based; 0 when absent
RFind(s, c) ==
  LET I == {i \in 1..Len(s) : s[i] = c}
  IN  IF I = {} THEN 0 ELSE MaxOf(I)

\* str.find for a one-character needle, 1-based; 0 when absent
Find(s, c) ==
  LET I == {i \in 1..Len(s) : s[i] = c}
  IN  IF I = {} THEN 0 ELSE MinOf(I)

\* ntpath.basename: the text after the last '/' or '\' (paths carry no drive)
Basename(p) ==
  LET I == {i \in 1..Len(p) : p[i] \in {"/", "\\"}}
      i == IF I = {} THEN 0 ELSE MaxOf(I)
  IN  SubSeq(p, i + 1, Len(p))

\* s.split(".")[0]
SplitFirst(s) ==
  LET i == Find(s, ".")
  IN  IF i = 0 THEN s ELSE SubSeq(s, 1, i - 1)

\* posixpath.splitext: <<root, ext>>; leading dots of the file name are
\* not an extension, and only '/' separates directories
Splitext(p) ==
  LET sepIndex == RFind(p, "/")
      dotIndex == RFind(p, ".")
  IN  IF dotIndex > sepIndex
         /\ \E k \in (sepIndex + 1)..(dotIndex - 1) : p[k] # "."
      THEN <<SubSeq(p, 1, dotIndex - 1), SubSeq(p, dotIndex, Len(p))>>
      ELSE <<p, <<>>>>

\* posixpath.join of two components
Join(a, b) ==
  IF Len(b) > 0 /\ b[1] = "/" THEN b
  ELSE IF Len(a) = 0 \/ a[Len(a)] = "/" THEN a \o b
  ELSE a \o <<"/">> \o b

\* posixpath.dirname
Dirname(p) ==
  LET i    == RFind(p, "/")
      head == SubSeq(p, 1, i)
      J    == {j \in 1..Len(head) : head[j] # "/"}
  IN  IF J = {} THEN head ELSE SubSeq(head, 1, MaxOf(J))

\* ------------------------------------------------------------ the universe
slides_path == <<"d">>
processed_path == <<"o">>
Thumbnails == <<"t", "h", "u", "m", "b", "n", "a", "i", "l", "s">>

F_a_svs == <<"a", ".", "s", "v", "s">>
F_a_b_svs == <<"a", ".", "b", ".", "s", "v", "s">>
F_c_tiff == <<"c", ".", "t", "i", "f", "f">>
F_b_txt == <<"b", ".", "t", "x", "t">>

valid_wsi_extensions == {<<".", "s", "v", "s">>, <<".", "t", "i", "f", "f">>}

FileNames == {F_a_svs, F_a_b_svs, F_c_tiff, F_b_txt}
ValidFiles == {f \in FileNames : Splitext(f)[2] \in valid_wsi_extensions}

\* Slide paths that no directory entry backs: backslash separators, a dot in
\* the directory part, a file that does not exist
ExtraPaths ==
  { <<"d", "\\">> \o F_a_b_svs,
    <<"e", ".", "f", "/", "g">>,
    <<"d", "/", "z", ".", "s", "v", "s">> }

ScaleFactors == {1, 3, 32, 64}
SaveScales == {32, 64}

OkContainer(w, h) == [st |-> "ok", w |-> w, h |-> h]
Corrupt == [st |-> "corrupt", w |-> 0, h |-> 0]

\* the dimensions a container of the file may report: for a single Slide any
\* of three, for the files of a SlideSet two or three each, any two files
\* sharing one; (20, 300) is narrower than the default scale factor
SlideDims == [f \in FileNames |-> {<<3200, 1600>>, <<100, 100>>, <<50, 300>>}]
SetDims ==
  [f \in FileNames |->
     IF f = F_a_svs THEN {<<100, 100>>, <<200, 50>>}
     ELSE IF f = F_a_b_svs THEN {<<200, 50>>, <<50, 300>>}
     ELSE {<<50, 300>>, <<100, 100>>, <<20, 300>>}]

\* a file of a valid extension holds a container that opens or a corrupt
\* one; any other file is no container
ContainersOf(f, D) ==
  IF f \in ValidFiles THEN {OkContainer(d[1], d[2]) : d \in D[f]} \cup {Corrupt}
  ELSE {Corrupt}

Entries(D) ==
  UNION { { [file |-> f, st |-> c.st, w |-> c.w, h |-> c.h]
              : c \in ContainersOf(f, D) } : f \in FileNames }

\* the directory listings of exactly n entries, file names distinct, in any
\* order (os.listdir promises none)
RECURSIVE ListingsOfLen(_, _)
ListingsOfLen(n, D) ==
  IF n = 0 THEN {<<>>}
  ELSE UNION { { Append(s, e) : e \in { x \in Entries(D) :
                                         \A i \in 1..Len(s) : s[i].file # x.file } }
               : s \in ListingsOfLen(n - 1, D) }

Listings(k, D) == UNION { ListingsOfLen(n, D) : n \in 0..k }

\* ------------------------------------------------------------------ Slide
Ok(v) == [err |-> "", val |-> v]
Raise(e) == [err |-> e, val |-> <<>>]

\* Slide._wsi: open the container at the path
Wsi(path) ==
  LET I == {i \in 1..Len(directory) : Join(slides_path, directory[i].file) = path}
  IN  IF I = {} THEN Raise("FileNotFoundError")
      ELSE LET e == directory[CHOOSE i \in I : TRUE]
           IN  IF e.st = "ok" THEN Ok(<<e.w, e.h>>) ELSE Raise("OpenSlideError")

\* Slide.dimensions
Dimensions(path) == Wsi(path)

\* Slide.name
Name(path) == SplitFirst(Basename(path))

\* Slide._extension
Extension(path) == Splitext(path)[2]

\* a mutant of Floor: the quotient is rounded up
Ceil(a, b) == (a + b - 1) \div b

\* math.floor(a / b) for a >= 0, b > 0
Floor(a, b) == a \div b

\* Slide._resampled_dimensions
ResampledDimensions(path, scale_factor) ==
  LET d == Dimensions(path)
  IN  IF d.err # "" THEN d
      ELSE Ok(<<d.val[1], d.val[2],
                Floor(d.val[1], scale_factor), Floor(d.val[2], scale_factor)>>)

DotExt == <<".">> \o IMG_EXT

\* Slide._breadcumb
Breadcumb(path, directory_path, scale_factor) ==
  LET r == ResampledDimensions(path, scale_factor)
  IN  IF r.err # "" THEN r
      ELSE IF {r.val[1], r.val[2], r.val[3], r.val[4]} = {None}
      THEN Ok(Join(directory_path, Name(path) \o <<"*">> \o DotExt))
      ELSE Ok(Join(directory_path,
                   Name(path) \o <<"-">> \o IntToStr(scale_factor) \o <<"x", "-">>
                   \o IntToStr(r.val[1]) \o <<"x">> \o IntToStr(r.val[2]) \o <<"-">>
                   \o IntToStr(r.val[3]) \o <<"x">> \o IntToStr(r.val[4]) \o DotExt))

\* Slide.scaled_image_path
ScaledImagePath(path, scale_factor) == Breadcumb(path, processed_path, scale_factor)

\* Slide.thumbnail_path
ThumbnailPath(path) ==
  Join(Join(processed_path, Thumbnails), Name(path) \o DotExt)

\* ---------------------------------------------------------- initial states
NoRet == [op |-> "init", err |-> "", path |-> <<>>, sf |-> 0, n |-> 0, val |-> <<>>]

InitWith(L, D) ==
  /\ directory \in L
  /\ dirs \in D
  /\ files = {}
  /\ clock = 0
  /\ log = <<>>
  /\ ret = NoRet

\* the paths a Slide is built on: the directory's entries and the extra ones
SlidePaths == {Join(slides_path, directory[i].file) : i \in 1..Len(directory)}
                \cup ExtraPaths

Result(op, path, sf, n, r) ==
  [op |-> op, err |-> r.err, path |-> path, sf |-> sf, n |-> n, val |-> r.val]

Query(r) ==
  /\ ret' = r
  /\ UNCHANGED <<directory, dirs, files, clock, log>>

\* ------------------------------------------------- Slide queries (actions)
GetName ==
  \E p \in SlidePaths : Query(Result("name", p, 0, 0, Ok(Name(p))))

GetDimensions ==
  \E p \in SlidePaths : Query(Result("dimensions", p, 0, 0, Dimensions(p)))

GetResampledDimensions ==
  \E p \in SlidePaths, sf \in ScaleFactors :
    Query(Result("resampled_dimensions", p, sf, 0, ResampledDimensions(p, sf)))

GetScaledImagePath ==
  \E p \in SlidePaths, sf \in ScaleFactors :
    Query(Result("scaled_image_path", p, sf, 0, ScaledImagePath(p, sf)))

GetThumbnailPath ==
  \E p \in SlidePaths :
    Query(Result("thumbnail_path", p, 0, 0, Ok(ThumbnailPath(p))))

\* ------------------------------------------------------ output file system
\* the directory and every directory above it
RECURSIVE Ancestors(_)
Ancestors(d) ==
  IF Len(d) = 0 \/ Dirname(d) = d THEN {}
  ELSE {d} \cup Ancestors(Dirname(d))

\* a mutant of Makedirs: exist_ok is ignored
MakedirsStrict(ds, d, exist_ok) ==
  IF d \in ds THEN [err |-> "FileExistsError", dirs |-> ds]
  ELSE [err |-> "", dirs |-> ds \cup Ancestors(d)]

\* os.makedirs(d, exist_ok=exist_ok)
Makedirs(ds, d, exist_ok) ==
  IF d \in ds /\ ~exist_ok THEN [err |-> "FileExistsError", dirs |-> ds]
  ELSE [err |-> "", dirs |-> ds \cup Ancestors(d)]

\* pathlib.Path(d).mkdir(exist_ok=exist_ok): the parent must exist
Mkdir(ds, d, exist_ok) ==
  IF d \in ds
  THEN [err |-> IF exist_ok THEN "" ELSE "FileExistsError", dirs |-> ds]
  ELSE IF Len(Dirname(d)) > 0 /\ Dirname(d) \notin ds
  THEN [err |-> "FileNotFoundError", dirs |-> ds]
  ELSE [err |-> "", dirs |-> ds \cup {d}]

\* img.save(path): the file at the path is created or replaced
ImgSave(ds, fl, path, img) ==
  IF Len(Dirname(path)) > 0 /\ Dirname(path) \notin ds
  THEN [err |-> "FileNotFoundError", files |-> fl]
  ELSE [err |-> "",
        files |-> {f \in fl : f.path # path} \cup {[path |-> path, img |-> img]}]

FS(ds, fl, clk) == [dirs |-> ds, files |-> fl, clock |-> clk]

Done(e, fs, v) == [err |-> e, fs |-> fs, val |-> v]

\* PIL.Image.Image.resize((w, h)): the size of the resized image; a target
\* with a side below 1 is refused ("height and width must be > 0")
Resize(w, h) ==
  IF w < 1 \/ h < 1 THEN Raise("ValueError") ELSE Ok(<<w, h>>)

\* Slide._resample: the image of the clk-th resample, of the scaled size; the
\* read of the region of a container that opens is taken to succeed
Resample(path, scale_factor, clk) ==
  LET r == ResampledDimensions(path, scale_factor)
  IN  IF r.err # "" THEN r
      ELSE LET z == Resize(r.val[3], r.val[4])
           IN  IF z.err # "" THEN z
               ELSE Ok([kind |-> "scaled", src |-> path,
                        w |-> z.val[1], h |-> z.val[2], seq |-> clk])

\* Slide.save_scaled_image
SaveScaledImageFn(fs, path, scale_factor) ==
  LET m   == Makedirs(fs.dirs, processed_path, TRUE)
      fs1 == FS(m.dirs, fs.files, fs.clock)
      img == Resample(path, scale_factor, fs.clock + 1)
      fs2 == FS(m.dirs, fs.files, fs.clock + 1)
      pth == ScaledImagePath(path, scale_factor)
      sv  == ImgSave(m.dirs, fs.files, pth.val, img.val)
  IN  IF m.err # "" THEN Done(m.err, fs, <<>>)
      ELSE IF img.err # "" THEN Done(img.err, fs1, <<>>)
      ELSE IF pth.err # "" THEN Done(pth.err, fs2, <<>>)
      ELSE IF sv.err # "" THEN Done(sv.err, fs2, <<>>)
      ELSE Done("", FS(m.dirs, sv.files, fs.clock + 1), pth.val)

\* OpenSlide.get_thumbnail((THUMBNAIL_SIZE, THUMBNAIL_SIZE)): w and h are the
\* bounding box asked for; the size within it is the container's choice
GetThumbnail(path, clk) ==
  LET o == Wsi(path)
  IN  IF o.err # "" THEN o
      ELSE Ok([kind |-> "thumbnail", src |-> path,
               w |-> THUMBNAIL_SIZE, h |-> THUMBNAIL_SIZE, seq |-> clk])

\* Slide.save_thumbnail
SaveThumbnailFn(fs, path) ==
  LET m   == Makedirs(fs.dirs, processed_path, TRUE)
      fs1 == FS(m.dirs, fs.files, fs.clock)
      img == GetThumbnail(path, fs.clock + 1)
      fs2 == FS(m.dirs, fs.files, fs.clock + 1)
      pth == ThumbnailPath(path)
      k   == Mkdir(m.dirs, Dirname(pth), TRUE)
      fs3 == FS(k.dirs, fs.files, fs.clock + 1)
      sv  == ImgSave(k.dirs, fs.files, pth, img.val)
  IN  IF m.err # "" THEN Done(m.err, fs, <<>>)
      ELSE IF img.err # "" THEN Done(img.err, fs1, <<>>)
      ELSE IF k.err # "" THEN Done(k.err, fs2, <<>>)
      ELSE IF sv.err # "" THEN Done(sv.err, fs3, <<>>)
      ELSE Done("", FS(k.dirs, sv.files, fs.clock + 1), pth)

Now == FS(dirs, files, clock)

\* a call that may change the output file system
Call(op, path, sf, n, r) ==
  /\ dirs' = r.fs.dirs
  /\ files' = r.fs.files
  /\ clock' = r.fs.clock
  /\ log' = Append(log, [op |-> op, path |-> path, sf |-> sf])
  /\ ret' = Result(op, path, sf, n, r)
  /\ UNCHANGED directory

\* the paths Slides are saved from: the directory's entries and a missing file
SavePaths == {Join(slides_path, directory[i].file) : i \in 1..Len(directory)}
               \cup {<<"d", "/", "z", ".", "s", "v", "s">>}

\* ---------------------------------------------------- Slide saves (actions)
SaveScaledImage ==
  /\ Len(log) < MaxSteps
  /\ \E p \in SavePaths, sf \in SaveScales :
       \E r \in {SaveScaledImageFn(Now, p, sf)} :
         Call("save_scaled_image", p, sf, 0, r)

SaveThumbnail ==
  /\ Len(log) < MaxSteps
  /\ \E p \in SavePaths :
       \E r \in {SaveThumbnailFn(Now, p)} :
         Call("save_thumbnail", p, 0, 0, r)

\* --------------------------------------------------------------- SlideSet
\* SlideSet.slides: the paths of the Slides, in listing order
RECURSIVE SlidesOf(_)
SlidesOf(listing) ==
  IF Len(listing) = 0 THEN <<>>
  ELSE LET rest == SlidesOf(Tail(listing))
       IN  IF Splitext(Head(listing).file)[2] \in valid_wsi_extensions
           THEN <<Join(slides_path, Head(listing).file)>> \o rest
           ELSE rest

Slides == SlidesOf(directory)

\* SlideSet.total_slides
TotalSlides == Len(Slides)

\* s[:n] for n >= 0
Take(s, n) == SubSeq(s, 1, IF n < Len(s) THEN n ELSE Len(s))

\* a mutant of ClampN: n == 0 is not taken for "all"
ClampNoZero(n, total) == IF n > total THEN total ELSE n

\* n = self.total_slides if (n > self.total_slides or n == 0) else n
ClampN(n, total) == IF n > total \/ n = 0 THEN total ELSE n

\* for slide in slides: slide.save_scaled_image(), up to the first error
RECURSIVE SaveScaledEach(_, _, _, _)
SaveScaledEach(fs, todo, calls, written) ==
  IF Len(todo) = 0
  THEN Done("", fs, [calls |-> calls, written |-> written])
  ELSE With(SaveScaledImageFn(fs, Head(todo), DefaultScale),
            LAMBDA r :
              LET c == Append(calls, Head(todo))
              IN  IF r.err # ""
                  THEN Done(r.err, r.fs, [calls |-> c, written |-> written])
                  ELSE SaveScaledEach(r.fs, Tail(todo), c,
                                      Append(written, r.val)))

\* SlideSet.save_rescaled_slides
SaveRescaledSlidesFn(fs, n) ==
  LET m == Makedirs(fs.dirs, processed_path, TRUE)
      k == ClampN(n, TotalSlides)
  IN  IF m.err # ""
      THEN Done(m.err, fs, [calls |-> <<>>, written |-> <<>>])
      ELSE With(Take(Slides, k),
             LAMBDA todo :
               SaveScaledEach(FS(m.dirs, fs.files, fs.clock), todo, <<>>, <<>>))

\* the call slide.save_thumbnail(*args): save_thumbnail takes only self
SaveThumbnailCall(fs, path, args) ==
  IF Len(args) > 0 THEN Done("TypeError", fs, <<>>)
  ELSE SaveThumbnailFn(fs, path)

\* for slide in slides: slide.save_thumbnail(scale_factor), up to the first
\* error
RECURSIVE SaveThumbnailEach(_, _, _, _, _)
SaveThumbnailEach(fs, todo, scale_factor, calls, written) ==
  IF Len(todo) = 0
  THEN Done("", fs, [calls |-> calls, written |-> written])
  ELSE With(SaveThumbnailCall(fs, Head(todo), <<scale_factor>>),
            LAMBDA r :
              LET c == Append(calls, Head(todo))
              IN  IF r.err # ""
                  THEN Done(r.err, r.fs, [calls |-> c, written |-> written])
                  ELSE SaveThumbnailEach(r.fs, Tail(todo), scale_factor, c,
                                         Append(written, r.val)))

\* SlideSet.save_thumbnails(scale_factor, n)
SaveThumbnailsFn(fs, scale_factor, n) ==
  LET m == Makedirs(fs.dirs, processed_path, TRUE)
      k == ClampN(n, TotalSlides)
  IN  IF m.err # ""
      THEN Done(m.err, fs, [calls |-> <<>>, written |-> <<>>])
      ELSE With(Take(Slides, k),
             LAMBDA todo :
               SaveThumbnailEach(FS(m.dirs, fs.files, fs.clock), todo,
                                 scale_factor, <<>>, <<>>))

\* SlideSet.slides_dimensions: one record per slide, up to the first
\* container that does not open
RECURSIVE DimensionsEach(_, _)
DimensionsEach(todo, recs) ==
  IF Len(todo) = 0 THEN Ok(recs)
  ELSE With(Dimensions(Head(todo)),
            LAMBDA d :
              IF d.err # "" THEN d
              ELSE DimensionsEach(Tail(todo),
                     Append(recs, [wsi |-> Name(Head(todo)),
                                   width |-> d.val[1],
                                   height |-> d.val[2],
                                   size |-> d.val[1] * d.val[2]])))

SlidesDimensions == With(Slides, LAMBDA todo : DimensionsEach(todo, <<>>))

\* a mutant of MaxBy: the last record, whatever its key
MaxByLast(recs, key) ==
  IF Len(recs) = 0 THEN Raise("ValueError") ELSE Ok(recs[Len(recs)])

\* max(recs, key=lambda x: x[key]): the first record of the largest key
MaxBy(recs, key) ==
  With(recs, LAMBDA rs :
    IF Len(rs) = 0 THEN Raise("ValueError")
    ELSE Ok(rs[MinOf({i \in 1..Len(rs) :
                        \A j \in 1..Len(rs) : rs[j][key] <= rs[i][key]})]))

\* min(recs, key=lambda x: x[key]): the first record of the smallest key
MinBy(recs, key) ==
  With(recs, LAMBDA rs :
    IF Len(rs) = 0 THEN Raise("ValueError")
    ELSE Ok(rs[MinOf({i \in 1..Len(rs) :
                        \A j \in 1..Len(rs) : rs[i][key] <= rs[j][key]})]))

RECURSIVE SumKey(_, _)
SumKey(recs, key) ==
  IF Len(recs) = 0 THEN 0 ELSE Head(recs)[key] + SumKey(Tail(recs), key)

\* sum(d[key] for d in self.slides_dimensions) / self.total_slides: the
\* quotient num / den
AvgBy(key) ==
  With(SlidesDimensions, LAMBDA d :
    IF d.err # "" THEN d
    ELSE IF TotalSlides = 0 THEN Raise("ZeroDivisionError")
    ELSE Ok([num |-> SumKey(d.val, key), den |-> TotalSlides]))

AvgWidthSlide == AvgBy("width")
AvgHeightSlide == AvgBy("height")
AvgSizeSlide == AvgBy("size")

MaxHeightSlide ==
  With(SlidesDimensions, LAMBDA d :
    IF d.err # "" THEN d
    ELSE With(MaxBy(d.val, "height"), LAMBDA m :
           IF m.err # "" THEN m
           ELSE Ok([slide |-> m.val.wsi, height |-> m.val.height])))

MaxSizeSlide ==
  With(SlidesDimensions, LAMBDA d :
    IF d.err # "" THEN d
    ELSE With(MaxBy(d.val, "size"), LAMBDA m :
           IF m.err # "" THEN m
           ELSE Ok([slide |-> m.val.wsi, size |-> m.val.size])))

MaxWidthSlide ==
  With(SlidesDimensions, LAMBDA d :
    IF d.err # "" THEN d
    ELSE With(MaxBy(d.val, "width"), LAMBDA m :
           IF m.err # "" THEN m
           ELSE Ok([slide |-> m.val.wsi, width |-> m.val.width])))

MinWidthSlide ==
  With(SlidesDimensions, LAMBDA d :
    IF d.err # "" THEN d
    ELSE With(MinBy(d.val, "width"), LAMBDA m :
           IF m.err # "" THEN m
           ELSE Ok([slide |-> m.val.wsi, width |-> m.val.width])))

MinHeightSlide ==
  With(SlidesDimensions, LAMBDA d :
    IF d.err # "" THEN d
    ELSE With(MinBy(d.val, "height"), LAMBDA m :
           IF m.err # "" THEN m
           ELSE Ok([slide |-> m.val.wsi, height |-> m.val.height])))

MinSizeSlide ==
  With(SlidesDimensions, LAMBDA d :
    IF d.err # "" THEN d
    ELSE With(MinBy(d.val, "size"), LAMBDA m :
           IF m.err # "" THEN m
           ELSE Ok([slide |-> m.val.wsi, height |-> m.val.size])))

\* the scatter plot of the dimensions: x, y and the marker size
RECURSIVE Column(_, _)
Column(recs, key) ==
  IF Len(recs) = 0 THEN <<>> ELSE <<Head(recs)[key]>> \o Column(Tail(recs), key)

\* SlideSet.slides_stats: the entries are evaluated in the order of the
\* record, and the first error ends the call
SlidesStatsFn ==
  With(<<MaxWidthSlide, MaxHeightSlide, MaxSizeSlide,
         MinWidthSlide, MinHeightSlide, MinSizeSlide,
         AvgWidthSlide, AvgHeightSlide, AvgSizeSlide, SlidesDimensions>>,
       LAMBDA parts :
    LET E == {i \in 1..9 : parts[i].err # ""}
        d == parts[10]
    IN  IF E # {} THEN Raise(parts[MinOf(E)].err)
        ELSE IF d.err # "" THEN d
        ELSE Ok([basic_stats |->
                 [no_of_slides |-> TotalSlides,
                  max_width |-> parts[1].val,
                  max_height |-> parts[2].val,
                  max_size |-> parts[3].val,
                  min_width |-> parts[4].val,
                  min_height |-> parts[5].val,
                  min_size |-> parts[6].val,
                  avg_width |-> parts[7].val,
                  avg_height |-> parts[8].val,
                  avg_size |-> parts[9].val],
               fig |-> [x |-> Column(d.val, "width"),
                        y |-> Column(d.val, "height"),
                        s |-> 8 * TotalSlides]]))

\* ------------------------------------------------------- SlideSet (actions)
Counts == 0..(MaxSlides + 1)

SaveRescaledSlides ==
  /\ Len(log) < MaxSetSteps
  /\ \E n \in Counts :
       \E r \in {SaveRescaledSlidesFn(Now, n)} :
         Call("save_rescaled_slides", <<>>, DefaultScale, n, r)

\* save_thumbnails(n=n)
SaveThumbnails ==
  /\ Len(log) < MaxSetSteps
  /\ \E n \in Counts :
       \E r \in {SaveThumbnailsFn(Now, DefaultScale, n)} :
         Call("save_thumbnails", <<>>, DefaultScale, n, r)

GetSlidesStats ==
  \E r \in {SlidesStatsFn} : Query(Result("slides_stats", <<>>, 0, 0, r))

\* ---------------------------------------------------------- specifications
Init == InitWith(Listings(MaxFiles, SlideDims), {{}, {processed_path}})

Next ==
  \/ GetName
  \/ GetDimensions
  \/ GetResampledDimensions
  \/ GetScaledImagePath
  \/ GetThumbnailPath

\* the queries of one Slide
Spec == Init /\ [][Next]_vars

SaveNext ==
  \/ SaveScaledImage
  \/ SaveThumbnail

\* the saves of one Slide
SaveSpec == Init /\ [][SaveNext]_vars

SetInit == InitWith(Listings(MaxSlides, SetDims), {{}})

SetNext ==
  \/ SaveRescaledSlides
  \/ SaveThumbnails
  \/ GetSlidesStats

\* the operations of a SlideSet
SetSpec == SetInit /\ [][SetNext]_vars

\* ------------------------------------------------------------------ claims
\* the directory entry behind a path, when there is one
HasEntry(path) ==
  \E i \in 1..Len(directory) : Join(slides_path, directory[i].file) = path
EntryOf(path) ==
  directory[CHOOSE i \in 1..Len(directory) :
              Join(slides_path, directory[i].file) = path]
Opens(path) == HasEntry(path) /\ EntryOf(path).st = "ok"

\* q is floor(a / b)
IsFloor(q, a, b) == q * b <= a /\ a < (q + 1) * b

\* C1: for a slide whose container reports (w, h) and a positive
\* scale_factor, _resampled_dimensions returns exactly
\* (w, h, floor(w / scale_factor), floor(h / scale_factor)), the scaled value
\* being 0 when scale_factor exceeds w or h; (3200, 1600) at 32 gives
\* (3200, 1600, 100, 50).
C1_ResampledDimensionsFloor ==
  (ret.op = "resampled_dimensions" /\ Opens(ret.path)) =>
    LET e == EntryOf(ret.path)
    IN  /\ ret.err = ""
        /\ Len(ret.val) = 4
        /\ ret.val[1] = e.w
        /\ ret.val[2] = e.h
        /\ IsFloor(ret.val[3], e.w, ret.sf)
        /\ IsFloor(ret.val[4], e.h, ret.sf)
        /\ (ret.sf > e.w => ret.val[3] = 0)
        /\ (ret.sf > e.h => ret.val[4] = 0)
        /\ (e.w = 3200 /\ e.h = 1600 /\ ret.sf = 32
              => ret.val = <<3200, 1600, 100, 50>>)

\* C1 witness: a scale factor above the width gave a scaled width of 0 while
\* the scaled height is not 0
C1_Witness ==
  /\ ret.op = "resampled_dimensions"
  /\ Opens(ret.path)
  /\ ret.err = ""
  /\ ret.sf > ret.val[1]
  /\ ret.val[3] = 0
  /\ ret.val[4] > 0

\* the scaled size of the entry at the scale factor has a side of 0
ZeroScaled(e, scale_factor) == scale_factor > e.w \/ scale_factor > e.h

\* C6 as stated: for a slide that opens, save_scaled_image called once or
\* twice with the same positive scale_factor, the output directory existing
\* or not, raises nothing and leaves exactly one file, at
\* scaled_image_path(scale_factor), holding the image of the latest resample.
C6_AsStated ==
  (/\ Len(log) >= 1
   /\ \A i \in 1..Len(log) : log[i] = log[1]
   /\ log[1].op = "save_scaled_image"
   /\ Opens(log[1].path)) =>
    /\ ret.err = ""
    /\ Cardinality(files) = 1
    /\ \A f \in files :
         /\ f.path = ScaledImagePath(log[1].path, log[1].sf).val
         /\ f.img.seq = Len(log)

\* C6 as amended: for a slide that opens and a scale_factor that exceeds
\* neither its width nor its height, save_scaled_image called once or twice
\* with that scale_factor, the output directory existing or not, raises
\* nothing and leaves exactly one file, at scaled_image_path(scale_factor),
\* holding the image of the latest resample: the second call replaces the
\* file of the first. When the scale_factor exceeds the width or the height
\* every call creates the output directory, raises ValueError and leaves no
\* file.
C6_SaveScaledImageIdempotent ==
  (/\ Len(log) >= 1
   /\ \A i \in 1..Len(log) : log[i] = log[1]
   /\ log[1].op = "save_scaled_image"
   /\ Opens(log[1].path)) =>
    LET e == EntryOf(log[1].path)
        p == ScaledImagePath(log[1].path, log[1].sf)
    IN  /\ p.err = ""
        /\ processed_path \in dirs
        /\ ZeroScaled(e, log[1].sf) =>
             /\ ret.err = "ValueError"
             /\ files = {}
        /\ ~ZeroScaled(e, log[1].sf) =>
             /\ ret.err = ""
             /\ ret.val = p.val
             /\ Cardinality(files) = 1
             /\ \A f \in files :
                  /\ f.path = p.val
                  /\ f.img.kind = "scaled"
                  /\ f.img.src = log[1].path
                  /\ f.img.seq = Len(log)
                  /\ f.img.w >= 1
                  /\ f.img.h >= 1
                  /\ IsFloor(f.img.w, e.w, log[1].sf)
                  /\ IsFloor(f.img.h, e.h, log[1].sf)
        /\ (e.w = 3200 /\ e.h = 1600 /\ log[1].sf = 32 =>
              p.val = processed_path \o <<"/">> \o Name(log[1].path)
                        \o <<"-", "3", "2", "x", "-", "3", "2", "0", "0", "x",
                             "1", "6", "0", "0", "-", "1", "0", "0", "x",
                             "5", "0", ".", "p", "n", "g">>)

\* C6 witness: the second of two equal calls has replaced the file
C6_Witness ==
  /\ Len(log) = 2
  /\ log[1] = log[2]
  /\ log[1].op = "save_scaled_image"
  /\ Opens(log[1].path)
  /\ ret.err = ""
  /\ \E f \in files : f.img.seq = 2

\* C7: scaled_image_path returns a path string and never fails: the wildcard
\* <processed_path>/<name>*.png when the container cannot supply the
\* dimensions, the fully qualified name otherwise.
C7_ScaledImagePathNeverFails ==
  ret.op = "scaled_image_path" =>
    /\ ret.err = ""
    /\ ~Opens(ret.path) =>
         ret.val = processed_path \o <<"/">> \o Name(ret.path) \o <<"*">> \o DotExt

\* C8: name followed by _extension reconstructs the base file name.
C8_NamePlusExtensionIsBasename ==
  ret.op = "name" => ret.val \o Extension(ret.path) = Basename(ret.path)

\* the entries of the listing that carry a valid extension, in listing order
IsValidEntry(e) == Splitext(e.file)[2] \in valid_wsi_extensions
ValidEntries == SelectSeq(directory, IsValidEntry)
AllOpen == \A i \in 1..Len(ValidEntries) : ValidEntries[i].st = "ok"
SlideNameAt(i) == Name(Join(slides_path, ValidEntries[i].file))

Widths == [i \in 1..Len(ValidEntries) |-> ValidEntries[i].w]
Heights == [i \in 1..Len(ValidEntries) |-> ValidEntries[i].h]
Sizes == [i \in 1..Len(ValidEntries) |-> ValidEntries[i].w * ValidEntries[i].h]

RECURSIVE SumSeq(_)
SumSeq(q) == IF Len(q) = 0 THEN 0 ELSE Head(q) + SumSeq(Tail(q))

\* the values an extremal entry carries beside the slide's name
Carried(entry) == {entry[k] : k \in DOMAIN entry \ {"slide"}}

\* the entry names a slide whose metric is the largest and carries it
IsMaxEntry(entry, metric) ==
  \E v \in Carried(entry) : \E i \in 1..Len(metric) :
    /\ SlideNameAt(i) = entry.slide
    /\ metric[i] = v
    /\ \A j \in 1..Len(metric) : metric[j] <= v

\* the entry names a slide whose metric is the smallest and carries it
IsMinEntry(entry, metric) ==
  \E v \in Carried(entry) : \E i \in 1..Len(metric) :
    /\ SlideNameAt(i) = entry.slide
    /\ metric[i] = v
    /\ \A j \in 1..Len(metric) : v <= metric[j]

\* the quotient avg is the mean of the metric
IsMean(avg, metric) ==
  /\ avg.den > 0
  /\ avg.num * Len(metric) = SumSeq(metric) * avg.den

ExampleListing ==
  /\ Len(ValidEntries) = 3
  /\ <<Widths[1], Heights[1]>> = <<100, 100>>
  /\ <<Widths[2], Heights[2]>> = <<200, 50>>
  /\ <<Widths[3], Heights[3]>> = <<50, 300>>

\* C2: slides_stats on a collection of zero slides fails with
\* EmptyCollectionError, and with no other kind of error.
C2_EmptyStatsRaisesEmptyCollectionError ==
  (ret.op = "slides_stats" /\ Len(ValidEntries) = 0) =>
    ret.err = "EmptyCollectionError"

\* C3: for a non-empty collection whose slides all open, slides_stats
\* returns a record where no_of_slides is the number of slides, every max
\* entry names a slide of the largest width / height / size and carries that
\* value, every min entry names a slide of the smallest and carries it, and
\* every avg is the sum divided by the number of slides; the slides
\* (100,100), (200,50), (50,300) give max_size = the third with 15000,
\* min_width = the third with 50 and avg_width = 350/3.
C3_StatsRecord ==
  (ret.op = "slides_stats" /\ Len(ValidEntries) > 0 /\ AllOpen) =>
    /\ ret.err = ""
    /\ LET b == ret.val.basic_stats
       IN  /\ b.no_of_slides = Len(ValidEntries)
           /\ IsMaxEntry(b.max_width, Widths)
           /\ IsMaxEntry(b.max_height, Heights)
           /\ IsMaxEntry(b.max_size, Sizes)
           /\ IsMinEntry(b.min_width, Widths)
           /\ IsMinEntry(b.min_height, Heights)
           /\ IsMinEntry(b.min_size, Sizes)
           /\ IsMean(b.avg_width, Widths)
           /\ IsMean(b.avg_height, Heights)
           /\ IsMean(b.avg_size, Sizes)
           /\ ExampleListing =>
                /\ b.max_size = [slide |-> SlideNameAt(3), size |-> 15000]
                /\ b.min_width = [slide |-> SlideNameAt(3), width |-> 50]
                /\ b.avg_width.num * 3 = 350 * b.avg_width.den

\* C3 witness: the statistics of the three slides of the example, of which
\* the first and the third carry different names
C3_Witness ==
  /\ ret.op = "slides_stats"
  /\ ret.err = ""
  /\ ExampleListing
  /\ SlideNameAt(1) # SlideNameAt(3)
  /\ ret.val.basic_stats.max_width.slide = SlideNameAt(2)

\* the number of slides a count n selects
Selected(n) ==
  IF n = 0 \/ n > Len(ValidEntries) THEN Len(ValidEntries) ELSE n

\* C4: save_thumbnails on a collection with a slide that opens completes
\* without error and writes one thumbnail per processed slide at its
\* thumbnail_path, the processed slides being the first n the caller passed.
C4_SaveThumbnailsWritesEach ==
  (/\ ret.op = "save_thumbnails"
   /\ Len(log) = 1
   /\ Len(ValidEntries) > 0
   /\ AllOpen) =>
    /\ ret.err = ""
    /\ Len(ret.val.written) = Selected(ret.n)
    /\ \A i \in 1..Selected(ret.n) :
         Cardinality({f \in files : f.path = ThumbnailPath(Slides[i])}) = 1

\* C5 as stated: whatever the containers, save_rescaled_slides(n) calls
\* save_scaled_image on exactly the first n slides (all of them when n == 0
\* or n > k), writes each once, and raises nothing when n > k.
C5_AsStated ==
  ret.op = "save_rescaled_slides" =>
    /\ ret.val.calls = SubSeq(Slides, 1, Selected(ret.n))
    /\ Len(ret.val.written) = Selected(ret.n)
    /\ ret.n > Len(ValidEntries) => ret.err = ""

\* a selected slide that save_scaled_image() can save: its container opens
\* and neither side is below the default scale factor
Savable(e) == e.st = "ok" /\ e.w >= DefaultScale /\ e.h >= DefaultScale

\* C5 as amended: when the container of every selected slide opens and
\* reports a width and a height of at least the default scale factor 32,
\* save_rescaled_slides(n) raises nothing, calls save_scaled_image on exactly
\* the first n slides in listing order (all k when n == 0 or n > k), and
\* writes one file per selected slide, at its scaled_image_path, and none
\* for a slide beyond the prefix. When a selected slide does not open or has
\* a side below 32 the call raises at the first such slide, having written
\* exactly the slides before it.
C5_SaveRescaledSlidesPrefix ==
  ret.op = "save_rescaled_slides" =>
    LET k    == Selected(ret.n)
        Bad  == {i \in 1..k : ~Savable(ValidEntries[i])}
        last == IF Bad = {} THEN k ELSE MinOf(Bad)
        done == IF Bad = {} THEN k ELSE MinOf(Bad) - 1
    IN  /\ (Bad = {}) <=> (ret.err = "")
        /\ Len(ret.val.calls) = last
        /\ \A i \in 1..last :
             ret.val.calls[i] = Join(slides_path, ValidEntries[i].file)
        /\ Len(ret.val.written) = done
        /\ \A i \in 1..done :
             /\ ret.val.written[i] = ScaledImagePath(ret.val.calls[i], DefaultScale).val
             /\ \E f \in files : f.path = ret.val.written[i]
        /\ Len(log) = 1 =>
             \A f \in files : \E i \in 1..done : f.img.src = ret.val.calls[i]

\* C5 witness: n exceeds the three slides of the collection, all of which
\* open, and all three were saved
C5_Witness ==
  /\ ret.op = "save_rescaled_slides"
  /\ ret.err = ""
  /\ Len(ValidEntries) = 3
  /\ ret.n > 3
  /\ Len(ret.val.calls) = 3

\* C9: every extremal entry of the summary record has exactly the keys
\* 'slide' and the name of its own metric.
C9_ExtremalEntriesKeyedByMetric ==
  (ret.op = "slides_stats" /\ ret.err = "") =>
    LET b == ret.val.basic_stats
    IN  /\ DOMAIN b.max_width = {"slide", "width"}
        /\ DOMAIN b.max_height = {"slide", "height"}
        /\ DOMAIN b.max_size = {"slide", "size"}
        /\ DOMAIN b.min_width = {"slide", "width"}
        /\ DOMAIN b.min_height = {"slide", "height"}
        /\ DOMAIN b.min_size = {"slide", "size"}

\* C10: distinct slide files of one SlideSet have distinct thumbnail paths,
\* and distinct scaled image paths when their dimensions are equal, so that
\* save_rescaled_slides over k slides into an empty output directory leaves
\* k files.
C10_DistinctOutputPaths ==
  (ret.op = "save_rescaled_slides" /\ ret.err = "" /\ Len(log) = 1) =>
    /\ Cardinality(files) = Len(ret.val.calls)
    /\ \A i, j \in 1..Len(ret.val.calls) :
         i # j => ThumbnailPath(ret.val.calls[i]) # ThumbnailPath(ret.val.calls[j])

====
